---- MODULE Spec2Model ----
(***************************************************************************)
(* Model of the row/column sudoku solver of src/src/main.rs: the Grid      *)
(* (cells, lines_state, columns_state, solved_indices_stack), its          *)
(* constructor Grid::create and the solve operation with propagation       *)
(* (try_solve_by_constrains) and the recursive search                      *)
(* (try_solve_recursive).  The recursion is made explicit as a stack of    *)
(* frames; each loop iteration of the propagation is one step.             *)
(***************************************************************************)
EXTENDS Integers, Naturals, Sequences, FiniteSets, TLC

\* ------------------------------------------------------------------------
\* Program constants
\* ------------------------------------------------------------------------
Size == 9
CellCount == 81
AllCandidates == 1022
\* usize::MAX, capped to the largest integer TLC has; it is only ever
\* an index that is not a cell
UsizeMax == 2147483647
U8Max == 255

\* ------------------------------------------------------------------------
\* Bounds of the explored inputs
\* ------------------------------------------------------------------------
MaxCleared == 6

Indices == 0 .. (CellCount - 1)
Digits == 1 .. Size

\* ------------------------------------------------------------------------
\* Index helpers
\* ------------------------------------------------------------------------
index_of(line, column) == line * Size + column

coordinates_of(index) == <<index \div Size, index % Size>>

\* ------------------------------------------------------------------------
\* u16 bit operations
\* ------------------------------------------------------------------------
Pow2(i) == 2 ^ i

Bit(m, i) == (m \div Pow2(i)) % 2

RECURSIVE BitAnd(_, _)
BitAnd(a, b) ==
    IF a = 0 \/ b = 0 THEN 0
    ELSE (a % 2) * (b % 2) + 2 * BitAnd(a \div 2, b \div 2)

\* ------------------------------------------------------------------------
\* Candidate-set helpers
\* ------------------------------------------------------------------------
\* the for loop of interpret_potential from i on, followed by its match
RECURSIVE interpret_potential_from(_, _, _, _)
interpret_potential_from(potential, i, count, last_value) ==
    IF i < 10
    THEN IF Bit(potential, i) # 0
         THEN interpret_potential_from(potential, i + 1, count + 1, i)
         ELSE interpret_potential_from(potential, i + 1, count, last_value)
    ELSE IF count = 0 THEN [tag |-> "None", n |-> 0]
         ELSE IF count = 1 THEN [tag |-> "One", n |-> last_value]
         ELSE [tag |-> "Several", n |-> count]

\* variant: the forced case carries the count instead of the digit
interpret_potential_count_for_digit(potential) ==
    LET bits == {i \in 1 .. 9 : Bit(potential, i) # 0}
        count == Cardinality(bits)
    IN IF count = 0 THEN [tag |-> "None", n |-> 0]
       ELSE IF count = 1 THEN [tag |-> "One", n |-> count]
       ELSE [tag |-> "Several", n |-> count]

\* variant: the loop starts at bit 0
interpret_potential_from_bit_0(potential) ==
    CHOOSE state \in {interpret_potential_from(p, 0, 0, 0) : p \in {potential}} : TRUE

\* (the argument is evaluated once, then the loop runs on its value)
interpret_potential(potential) ==
    CHOOSE state \in {interpret_potential_from(p, 1, 0, 0) : p \in {potential}} : TRUE

\* the for loop of get_potential_value_at from i on, followed by return 0
RECURSIVE get_potential_value_from(_, _, _, _)
get_potential_value_from(potential, index, i, current_index) ==
    IF i < 10
    THEN IF Bit(potential, i) # 0
         THEN IF current_index = index THEN i
              ELSE get_potential_value_from(potential, index, i + 1, current_index + 1)
         ELSE get_potential_value_from(potential, index, i + 1, current_index)
    ELSE 0

get_potential_value_at(potential, index) ==
    CHOOSE value \in {get_potential_value_from(p, k, 1, 0) :
                          p \in {potential}, k \in {index}} : TRUE

any_unsolved_cell(c) == \E i \in Indices : c[i] = 0

\* ------------------------------------------------------------------------
\* Mask recomputation
\* ------------------------------------------------------------------------
\* variant: the bit below the value's is cleared
clear_bit_below_value(m, value) ==
    IF Bit(AllCandidates, value - 1) # 0 /\ Bit(m, value - 1) # 0
    THEN m - Pow2(value - 1)
    ELSE m

\* value_bit = 0x3FE & (1 << value); m &= !value_bit
clear_value_bit(m, value) ==
    IF Bit(AllCandidates, value) # 0 /\ Bit(m, value) # 0
    THEN m - Pow2(value)
    ELSE m

LineCells == [l \in 0 .. (Size - 1) |->
                 {index \in Indices : coordinates_of(index)[1] = l}]
ColumnCells == [k \in 0 .. (Size - 1) |->
                   {index \in Indices : coordinates_of(index)[2] = k}]

\* variant: the column masks are never narrowed
compute_potentials_lines_only(c) ==
    LET RECURSIVE clear(_, _, _)
        clear(present, value, m) ==
            IF value > Size THEN m
            ELSE CHOOSE cleared \in
                     {clear(present, value + 1, next) :
                         next \in {IF value \in present
                                   THEN clear_value_bit(m, value) ELSE m}} : TRUE
        mask(group) ==
            CHOOSE cleared \in
                {clear(present, 1, AllCandidates) :
                    present \in {{c[index] : index \in group} \ {0}}} : TRUE
    IN [lines |-> [l \in 0 .. (Size - 1) |-> mask(LineCells[l])],
        columns |-> [k \in 0 .. (Size - 1) |-> AllCandidates]]

\* every mask starts as 0x3FE and loses the value bit of each filled cell of
\* its line (column)
compute_potentials(c) ==
    LET RECURSIVE clear(_, _, _)
        clear(present, value, m) ==
            IF value > Size THEN m
            ELSE CHOOSE cleared \in
                     {clear(present, value + 1, next) :
                         next \in {IF value \in present
                                   THEN clear_value_bit(m, value) ELSE m}} : TRUE
        mask(group) ==
            CHOOSE cleared \in
                {clear(present, 1, AllCandidates) :
                    present \in {{c[index] : index \in group} \ {0}}} : TRUE
    IN [lines |-> [l \in 0 .. (Size - 1) |-> mask(LineCells[l])],
        columns |-> [k \in 0 .. (Size - 1) |-> mask(ColumnCells[k])]]

potential_at(ls, cs, index) ==
    BitAnd(ls[coordinates_of(index)[1]], cs[coordinates_of(index)[2]])

\* ------------------------------------------------------------------------
\* Minimum-candidate selection
\* ------------------------------------------------------------------------
NoCell == [found |-> FALSE, index |-> UsizeMax, potential |-> 0, count |-> U8Max]

\* the loop keeps the first cell (row-major) of the smallest Several count,
\* a count replacing the kept one only when strictly smaller; the kept count
\* starts at u8::MAX and the kept potential at 0, which means "no cell"
\* variant: filled cells are not skipped by the scan
find_in_any_cell(c, ls, cs, state) ==
    LET several == {index \in Indices :
                       /\ state[index].tag = "Several"
                       /\ state[index].n < U8Max}
        least == CHOOSE n \in {state[index].n : index \in several} :
                     \A index \in several : n <= state[index].n
        first == CHOOSE index \in several :
                     /\ state[index].n = least
                     /\ \A other \in several :
                            state[other].n = least => index <= other
    IN IF several = {} THEN NoCell
       ELSE [found |-> TRUE, index |-> first,
             potential |-> potential_at(ls, cs, first),
             count |-> least]

\* variant: a count equal to the kept one replaces it (<= for <), so the last
\* cell of the smallest count is kept
find_in_last_of_ties(c, ls, cs, state) ==
    LET several == {index \in Indices :
                       /\ c[index] = 0
                       /\ state[index].tag = "Several"
                       /\ state[index].n <= U8Max}
        least == CHOOSE n \in {state[index].n : index \in several} :
                     \A index \in several : n <= state[index].n
        last == CHOOSE index \in several :
                    /\ state[index].n = least
                    /\ \A other \in several :
                           state[other].n = least => other <= index
    IN IF several = {} THEN NoCell
       ELSE [found |-> TRUE, index |-> last,
             potential |-> potential_at(ls, cs, last),
             count |-> least]

find_in(c, ls, cs, state) ==
    LET several == {index \in Indices :
                       /\ c[index] = 0
                       /\ state[index].tag = "Several"
                       /\ state[index].n < U8Max}
        least == CHOOSE n \in {state[index].n : index \in several} :
                     \A index \in several : n <= state[index].n
        lowest(n) == CHOOSE index \in several :
                         /\ state[index].n = n
                         /\ \A other \in several :
                                state[other].n = n => index <= other
        first == CHOOSE index \in {lowest(n) : n \in {least}} : TRUE
        result == IF several = {} THEN NoCell
                  ELSE [found |-> FALSE, index |-> first,
                        potential |-> potential_at(ls, cs, first),
                        count |-> least]
    IN IF result.potential = 0 THEN NoCell
       ELSE [result EXCEPT !.found = TRUE]

\* (the classification of the 81 candidate sets is computed once)
try_find_cell_with_low_potential(c, ls, cs) ==
    CHOOSE found \in
        {find_in(c, ls, cs, state) :
            state \in {[index \in Indices |->
                           interpret_potential(potential_at(ls, cs, index))]}} : TRUE

\* ------------------------------------------------------------------------
\* One pass of the for loop of try_solve_by_constrains: the first empty cell
\* (row-major) whose candidate set is One or None, if any
\* ------------------------------------------------------------------------
first_decided_cell(c, ls, cs) ==
    LET first_of(decided) ==
            IF decided = {} THEN UsizeMax
            ELSE CHOOSE i \in decided : \A j \in decided : i <= j
    IN CHOOSE first \in
           {first_of(decided) :
               decided \in {{i \in Indices :
                                /\ c[i] = 0
                                /\ interpret_potential(potential_at(ls, cs, i)).tag
                                       # "Several"}}} : TRUE

\* variant: the solved index is not recorded
push_nothing(stack, index) == stack

\* self.solved_indices_stack.push(index)
push_solved_index(stack, index) == Append(stack, index)

\* ------------------------------------------------------------------------
\* Trial revert
\* ------------------------------------------------------------------------
\* variant: the top of the stack is read and cleared, never removed
revert_without_popping(c, stack, count) ==
    [cells |-> IF count > 0 /\ stack # <<>>
               THEN [c EXCEPT ![stack[Len(stack)]] = 0]
               ELSE c,
     stack |-> stack]

\* variant: one index fewer than asked is popped
revert_one_less(c, stack, count) ==
    LET kept == Len(stack) - (IF count > 0 THEN count - 1 ELSE 0)
        popped == {stack[k] : k \in (kept + 1) .. Len(stack)}
    IN [cells |-> [index \in Indices |-> IF index \in popped THEN 0 ELSE c[index]],
        stack |-> SubSeq(stack, 1, kept)]

\* variant: the popped cells are not cleared
revert_without_clearing(c, stack, count) ==
    [cells |-> c, stack |-> SubSeq(stack, 1, Len(stack) - count)]

revert_last_resolved_indices(c, stack, count) ==
    LET kept == Len(stack) - count
        popped == {stack[k] : k \in (kept + 1) .. Len(stack)}
    IN [cells |-> [index \in Indices |-> IF index \in popped THEN 0 ELSE c[index]],
        stack |-> SubSeq(stack, 1, kept)]

\* ------------------------------------------------------------------------
\* Seed lists handed to Grid::create
\* ------------------------------------------------------------------------
ScenarioA ==
    << <<3, 0, 0>>, <<6, 0, 2>>, <<5, 0, 3>>, <<8, 0, 5>>, <<4, 0, 6>>,
       <<5, 1, 0>>, <<2, 1, 1>>, <<8, 2, 1>>, <<7, 2, 2>>, <<3, 2, 7>>,
       <<1, 2, 8>>, <<3, 3, 2>>, <<1, 3, 5>>, <<8, 3, 7>>, <<9, 4, 0>>,
       <<8, 4, 3>>, <<6, 4, 4>>, <<3, 4, 5>>, <<5, 4, 8>>, <<5, 5, 1>>,
       <<9, 5, 4>>, <<6, 5, 6>>, <<1, 6, 0>>, <<3, 6, 1>>, <<2, 6, 6>>,
       <<5, 6, 7>>, <<7, 7, 7>>, <<4, 7, 8>>, <<5, 8, 2>>, <<2, 8, 3>>,
       <<6, 8, 5>>, <<3, 8, 6>> >>

\* a complete grid whose rows and columns are permutations of 1..9
SolvedGrid ==
    << 5, 1, 2, 3, 4, 6, 7, 8, 9,
       1, 8, 3, 9, 2, 4, 5, 6, 7,
       2, 3, 8, 7, 9, 1, 4, 5, 6,
       3, 7, 9, 6, 1, 8, 2, 4, 5,
       4, 2, 5, 1, 6, 9, 8, 7, 3,
       6, 4, 1, 5, 8, 7, 3, 9, 2,
       7, 6, 4, 2, 3, 5, 9, 1, 8,
       8, 9, 7, 4, 5, 2, 6, 3, 1,
       9, 5, 6, 8, 7, 3, 1, 2, 4 >>

\* the complete grid that extends ScenarioA
ScenarioASolved ==
    << 3, 7, 6, 5, 1, 8, 4, 2, 9,
       5, 2, 9, 3, 7, 4, 1, 6, 8,
       6, 8, 7, 4, 2, 9, 5, 3, 1,
       4, 6, 3, 7, 5, 1, 9, 8, 2,
       9, 4, 2, 8, 6, 3, 7, 1, 5,
       7, 5, 8, 1, 9, 2, 6, 4, 3,
       1, 3, 4, 9, 8, 7, 2, 5, 6,
       2, 9, 1, 6, 3, 5, 8, 7, 4,
       8, 1, 5, 2, 4, 6, 3, 9, 7 >>

CompleteGrids == {SolvedGrid, ScenarioASolved}

\* the cells of SolvedGrid that a seed list may leave out
Window == {index_of(l, c) : l \in {1, 4, 7}, c \in {2, 7, 8}}

ClearedSets == {S \in SUBSET Window : Cardinality(S) <= MaxCleared}

\* the seeds of the complete grid g outside S, in row-major order
GridSeeds(g, S) ==
    LET all == [k \in 1 .. CellCount |->
                   <<g[k], coordinates_of(k - 1)[1], coordinates_of(k - 1)[2]>>]
        kept(seed) == index_of(seed[2], seed[3]) \notin S
    IN SelectSeq(all, kept)

\* seeds appended after the grid's own: a repeated digit in a row, a value 0,
\* a column 9, a row 9
ExtraSeeds == { <<5, 0, 1>>, <<6, 7, 7>>, <<0, 0, 0>>, <<5, 0, 9>>, <<5, 9, 0>> }

ExtraSeqs == {<<>>} \cup {<<seed>> : seed \in ExtraSeeds}

SeedLists ==
    { <<>>, ScenarioA }
        \cup {GridSeeds(g, {index}) : g \in CompleteGrids, index \in Indices}
        \cup {GridSeeds(SolvedGrid, S) \o e : S \in ClearedSets, e \in ExtraSeqs}

\* ------------------------------------------------------------------------
\* Grid::create: the cell buffer after the seeds were written in order; a
\* seed whose index is outside the buffer makes the indexing panic
\* ------------------------------------------------------------------------
write_seed(made, entry) ==
    LET index == index_of(entry[2], entry[3])
    IN IF ~made.ok THEN made
       ELSE IF index >= CellCount THEN [made EXCEPT !.ok = FALSE]
       ELSE [made EXCEPT !.cells[index] = entry[1]]

\* the entries lo..hi written in order; the range is split in halves, the
\* first half being written before the second
RECURSIVE write_seeds(_, _, _, _)
write_seeds(vals, lo, hi, made) ==
    IF lo > hi THEN made
    ELSE IF lo = hi THEN write_seed(made, vals[lo])
    ELSE LET halves(first, mid, last) ==
                 CHOOSE after \in {write_seeds(vals, mid + 1, last, before) :
                                     before \in {write_seeds(vals, first, mid, made)}} : TRUE
         IN CHOOSE after \in {halves(first, mid, last) :
                                 first \in {lo}, mid \in {(lo + hi) \div 2},
                                 last \in {hi}} : TRUE

create(vals) ==
    write_seeds(vals, 1, Len(vals), [ok |-> TRUE, cells |-> [index \in Indices |-> 0]])

\* ------------------------------------------------------------------------
\* State
\* ------------------------------------------------------------------------
VARIABLES
    values,                        \* the seed list main hands to Grid::create
    given,                         \* the cell buffer Grid::create returned
    cells,                         \* Grid.cells
    lines_state,                   \* Grid.lines_state
    columns_state,                 \* Grid.columns_state
    solved_indices_stack,          \* Grid.solved_indices_stack
    pc,                            \* position of the program
    caller,                        \* who runs try_solve_by_constrains
    initial_solved_indices_count,  \* local of try_solve_by_constrains
    any_solve,                     \* local of try_solve_by_constrains
    any_error,                     \* local of try_solve_by_constrains
    at_entry,                      \* history: the grid when try_solve_by_constrains was entered
    frames,                        \* active loops of try_solve_recursive
    ret,                           \* value returned by the last try_solve_recursive
    arg_potential,                 \* a u16 handed to the two mask helpers
    res_state,                     \* what interpret_potential returned for it
    res_values                     \* what get_potential_value_at returned for 0, 1, ...

vars == <<values, given, cells, lines_state, columns_state, solved_indices_stack, pc,
          caller, initial_solved_indices_count, any_solve, any_error, at_entry,
          frames, ret, arg_potential, res_state, res_values>>

helper_vars == <<arg_potential, res_state, res_values>>
inputs == <<values, given, helper_vars>>
grid == <<cells, lines_state, columns_state, solved_indices_stack>>
prop_locals == <<initial_solved_indices_count, any_solve, any_error, at_entry>>

NotCalled == [tag |-> "NotCalled", n |-> 0]

\* before main has created the grid
GridNotCreated ==
    /\ given = [i \in Indices |-> 0]
    /\ cells = [i \in Indices |-> 0]
    /\ lines_state = [l \in 0 .. (Size - 1) |-> 0]
    /\ columns_state = [l \in 0 .. (Size - 1) |-> 0]
    /\ solved_indices_stack = <<>>
    /\ pc = "create"
    /\ caller = "none"
    /\ initial_solved_indices_count = 0
    /\ any_solve = FALSE
    /\ any_error = FALSE
    /\ at_entry = [cells |-> cells, lines |-> lines_state,
                   columns |-> columns_state, stack |-> solved_indices_stack]
    /\ frames = <<>>
    /\ ret = FALSE

Init ==
    /\ values \in SeedLists
    /\ GridNotCreated
    /\ arg_potential = 0
    /\ res_state = NotCalled
    /\ res_values = <<>>

\* main: Grid::create(&init), then my_grid.solve() is about to run
Create ==
    /\ pc = "create"
    /\ \E made \in {create(values)} :
          /\ cells' = made.cells
          /\ given' = made.cells
          /\ pc' = IF made.ok THEN "solve" ELSE "create_panic"
    /\ UNCHANGED <<values, helper_vars, lines_state, columns_state,
                   solved_indices_stack, caller, prop_locals, frames, ret>>

\* entry of try_solve_by_constrains: the locals before the while loop
EnterPropagation(who, c, masks) ==
    /\ caller' = who
    /\ at_entry' = [cells |-> c, lines |-> masks.lines,
                    columns |-> masks.columns, stack |-> solved_indices_stack]
    /\ initial_solved_indices_count' = Len(solved_indices_stack)
    /\ any_solve' = TRUE
    /\ any_error' = FALSE
    /\ pc' = "propagate"

\* solve: compute_potentials, then the call of try_solve_by_constrains
SolveBegin ==
    /\ pc = "solve"
    /\ \E masks \in {compute_potentials(cells)} :
          /\ lines_state' = masks.lines
          /\ columns_state' = masks.columns
          /\ EnterPropagation("solve", cells, masks)
    /\ UNCHANGED <<inputs, cells, solved_indices_stack, frames, ret>>

\* variant: any_solve is not reset at the head of the loop body
PropagateScan_without_reset ==
    /\ pc = "propagate"
    /\ any_solve /\ ~any_error
    /\ \E index \in {first_decided_cell(cells, lines_state, columns_state)} :
          IF index = UsizeMax
          THEN UNCHANGED <<grid, any_solve, any_error>>
          ELSE \E state \in {interpret_potential(
                                potential_at(lines_state, columns_state, index))} :
                  IF state.tag = "One"
                  THEN \E written \in {[cells EXCEPT ![index] = state.n]} :
                       \E masks \in {compute_potentials(written)} :
                          /\ cells' = written
                          /\ solved_indices_stack' = push_solved_index(solved_indices_stack, index)
                          /\ lines_state' = masks.lines
                          /\ columns_state' = masks.columns
                          /\ any_solve' = TRUE
                          /\ UNCHANGED any_error
                  ELSE /\ UNCHANGED any_solve
                       /\ any_error' = TRUE
                       /\ UNCHANGED grid
    /\ UNCHANGED <<inputs, pc, caller, initial_solved_indices_count, at_entry,
                   frames, ret>>

\* one iteration of the while loop of try_solve_by_constrains
PropagateScan ==
    /\ pc = "propagate"
    /\ any_solve /\ ~any_error
    /\ \E index \in {first_decided_cell(cells, lines_state, columns_state)} :
          IF index = UsizeMax
          THEN /\ any_solve' = FALSE
               /\ UNCHANGED <<grid, any_error>>
          ELSE \E state \in {interpret_potential(
                                potential_at(lines_state, columns_state, index))} :
                  IF state.tag = "One"
                  THEN \E written \in {[cells EXCEPT ![index] = state.n]} :
                       \E masks \in {compute_potentials(written)} :
                          /\ cells' = written
                          /\ solved_indices_stack' = push_solved_index(solved_indices_stack, index)
                          /\ lines_state' = masks.lines
                          /\ columns_state' = masks.columns
                          /\ any_solve' = TRUE
                          /\ UNCHANGED any_error
                  ELSE /\ any_solve' = FALSE
                       /\ any_error' = TRUE
                       /\ UNCHANGED grid
    /\ UNCHANGED <<inputs, pc, caller, initial_solved_indices_count, at_entry,
                   frames, ret>>

\* variant: the contradiction flag is not reported
propagation_always_succeeds == TRUE

\* the values try_solve_by_constrains returns once its loop has ended
propagation_success == ~any_error
propagation_count == Len(solved_indices_stack) - initial_solved_indices_count

\* solve after the initial propagation: panic, or call try_solve_recursive
\* (whose result solve does not look at)
SolveAfterPropagation ==
    /\ pc = "propagate"
    /\ ~(any_solve /\ ~any_error)
    /\ caller = "solve"
    /\ pc' = IF propagation_success THEN "recursive" ELSE "panic"
    /\ UNCHANGED <<inputs, grid, caller, prop_locals, frames, ret>>

\* entry of try_solve_recursive up to the start of its for loop
RecursiveEnter ==
    /\ pc = "recursive"
    /\ IF ~any_unsolved_cell(cells)
       THEN /\ ret' = TRUE
            /\ pc' = "returned"
            /\ UNCHANGED frames
       ELSE \E found \in {try_find_cell_with_low_potential(cells, lines_state,
                                                            columns_state)} :
               IF found.found
               THEN /\ frames' = Append(frames,
                                   [cell_index |-> found.index,
                                    potential |-> found.potential,
                                    potential_count |-> found.count,
                                    potential_index |-> 0,
                                    number_of_solved_indices |-> 0,
                                    entered |-> [cells |-> cells,
                                                 lines |-> lines_state,
                                                 columns |-> columns_state,
                                                 stack |-> solved_indices_stack]])
                    /\ pc' = "trial"
                    /\ UNCHANGED ret
               ELSE /\ ret' = FALSE
                    /\ pc' = "returned"
                    /\ UNCHANGED frames
    /\ UNCHANGED <<inputs, grid, caller, prop_locals>>

\* head of the for loop: write the next candidate and propagate, or leave
\* the loop and return false
RecursiveTrial ==
    /\ pc = "trial"
    /\ LET frame == frames[Len(frames)]
       IN IF frame.potential_index < frame.potential_count
          THEN \E written \in {[cells EXCEPT ![frame.cell_index] =
                                   get_potential_value_at(frame.potential,
                                                          frame.potential_index)]} :
               \E masks \in {compute_potentials(written)} :
                  /\ cells' = written
                  /\ lines_state' = masks.lines
                  /\ columns_state' = masks.columns
                  /\ EnterPropagation("recursive", written, masks)
                  /\ UNCHANGED <<solved_indices_stack, frames, ret>>
          ELSE /\ frames' = SubSeq(frames, 1, Len(frames) - 1)
               /\ ret' = FALSE
               /\ pc' = "returned"
               /\ UNCHANGED <<grid, caller, prop_locals>>
    /\ UNCHANGED inputs

\* the trial's propagation has returned (success, number_of_solved_indices)
RecursiveAfterPropagation ==
    /\ pc = "propagate"
    /\ ~(any_solve /\ ~any_error)
    /\ caller = "recursive"
    /\ frames' = [frames EXCEPT ![Len(frames)].number_of_solved_indices =
                                    propagation_count]
    /\ pc' = IF propagation_success THEN "recursive" ELSE "revert"
    /\ UNCHANGED <<inputs, grid, caller, prop_locals, ret>>

\* a call of try_solve_recursive has returned to its caller
RecursiveReturn ==
    /\ pc = "returned"
    /\ IF frames = <<>>
       THEN /\ pc' = "done"
            /\ UNCHANGED <<frames, ret>>
       ELSE IF ret
            THEN /\ frames' = SubSeq(frames, 1, Len(frames) - 1)
                 /\ pc' = "returned"
                 /\ UNCHANGED ret
            ELSE /\ pc' = "revert"
                 /\ UNCHANGED <<frames, ret>>
    /\ UNCHANGED <<inputs, grid, caller, prop_locals>>

\* the failed trial is undone; the loop goes on with the next candidate
RecursiveRevert ==
    /\ pc = "revert"
    /\ LET frame == frames[Len(frames)]
       IN \E reverted \in {revert_last_resolved_indices(cells, solved_indices_stack,
                                                        frame.number_of_solved_indices)} :
          \E cleared \in {[reverted.cells EXCEPT ![frame.cell_index] = 0]} :
          \E masks \in {compute_potentials(cleared)} :
          /\ cells' = cleared
          /\ solved_indices_stack' = reverted.stack
          /\ lines_state' = masks.lines
          /\ columns_state' = masks.columns
          /\ frames' = [frames EXCEPT ![Len(frames)].potential_index = @ + 1]
    /\ pc' = "trial"
    /\ UNCHANGED <<inputs, caller, prop_locals, ret>>

Next ==
    \/ Create
    \/ SolveBegin
    \/ PropagateScan
    \/ SolveAfterPropagation
    \/ RecursiveEnter
    \/ RecursiveTrial
    \/ RecursiveAfterPropagation
    \/ RecursiveReturn
    \/ RecursiveRevert

Spec == Init /\ [][Next]_vars

\* main is one sequential thread: it keeps running until it returns or panics
FairSpec == Spec /\ WF_vars(Next)

\* ------------------------------------------------------------------------
\* Vocabulary of the properties
\* ------------------------------------------------------------------------
Lines == 0 .. (Size - 1)

\* every cell holds a digit, every row and every column holds each digit once
ValidCompletion(c) ==
    /\ \A index \in Indices : c[index] \in Digits
    /\ \A l \in Lines, v \in Digits :
           /\ Cardinality({k \in Lines : c[index_of(l, k)] = v}) = 1
           /\ Cardinality({k \in Lines : c[index_of(k, l)] = v}) = 1

\* some line (column) has fewer distinct digits than filled cells
HasRowDuplicate(c) ==
    \E l \in Lines :
        Cardinality({c[index] : index \in LineCells[l]} \ {0})
            < Cardinality({index \in LineCells[l] : c[index] # 0})

HasColumnDuplicate(c) ==
    \E k \in Lines :
        Cardinality({c[index] : index \in ColumnCells[k]} \ {0})
            < Cardinality({index \in ColumnCells[k] : c[index] # 0})

InvalidSeed(seed) == seed[1] = 0 \/ seed[2] >= Size \/ seed[3] >= Size

\* solve has been entered and the recursive search has not
BeforeSearch == pc \in {"solve", "propagate", "panic"} /\ caller # "recursive"

\* ------------------------------------------------------------------------
\* Properties
\* ------------------------------------------------------------------------

\* C1: whenever solve returns normally, every cell holds a digit of 1..9 and
\* every row and every column contains each digit exactly once.
C1_ReturnedGridIsValid == pc = "done" => ValidCompletion(cells)

\* C2: when the top-level recursive search returns false, solve does not
\* return normally.
C2_FailedSearchIsHardFailure == pc = "done" => ret

\* C3: for seeds that place two equal digits in one row, solve ends in the
\* base-constraints failure and the recursive search is never entered.
C3_RowDuplicateIsBaseFailure ==
    (pc # "create" /\ HasRowDuplicate(given)) => BeforeSearch

\* C4: a seed list with a seed of value 0 or of a row or column outside 0..8 is
\* rejected by the constructor: no grid is built from it.
C4_InvalidSeedRejected ==
    (\E k \in 1 .. Len(values) : InvalidSeed(values[k]))
        => pc \in {"create", "create_panic"}

\* the grid c agrees with the complete grid g wherever c is filled
Extends(g, c) == \A index \in Indices : c[index] # 0 => c[index] = g[index + 1]

\* c has a completion among the complete grids of the model
Completable(c) == \E g \in CompleteGrids : Extends(g, c)

EmptyCells(c) == {index \in Indices : c[index] = 0}

\* C5: if the seeded grid has a completion whose rows and columns are
\* permutations of 1..9, the initial propagation reports no contradiction and
\* the top-level search returns true with every cell filled.
C5_CompletableNeverDead ==
    Completable(given) =>
        /\ pc # "panic"
        /\ (pc = "returned" /\ frames = <<>>) => ret
        /\ pc = "done" => (ret /\ ~any_unsolved_cell(cells))

\* a completable grid was solved with at least one cell filled by a trial
C5_Witness ==
    /\ pc = "done"
    /\ Completable(given)
    /\ ret
    /\ Len(solved_indices_stack) < Cardinality(EmptyCells(given))

\* C6: in every state during and after solve, each cell that was non-empty
\* when solve was called still holds its seeded value.
C6_SeededCellsKept ==
    \A index \in Indices : given[index] # 0 => cells[index] = given[index]

\* a trial has been reverted in a grid that has seeded cells
C6_Witness ==
    /\ pc = "trial"
    /\ frames[Len(frames)].potential_index > 0
    /\ \E index \in Indices : given[index] # 0

\* C7: if the initial propagation reports a contradiction, solve ends in the
\* base-constraints failure and the recursive search is never invoked.
C7_InitialContradictionPanics ==
    (caller = "solve" /\ any_error) => pc \in {"propagate", "panic"}

\* the initial propagation has found a contradiction and solve has panicked
C7_Witness == pc = "panic" /\ caller = "solve" /\ any_error

\* no digit stands twice in a row or a column of c
DuplicateFree(c) == ~HasRowDuplicate(c) /\ ~HasColumnDuplicate(c)

\* C8 (as stated): after every successful solve the solved-by-propagation
\* stack is non-empty.
C8_StackNonEmptyAfterSolve ==
    (pc = "done" /\ ret) => solved_indices_stack # <<>>

\* C8 (amended): when solve returns a completely filled grid from seeds
\* without a repeated digit in a row or column, the stack is non-empty exactly
\* when the grid had an empty cell at the call; for an already complete grid
\* it is empty.
C8_StackNonEmptyIffCellWasEmpty ==
    (pc = "done" /\ ~any_unsolved_cell(cells) /\ DuplicateFree(given)) =>
        (solved_indices_stack # <<>> <=> any_unsolved_cell(given))

\* solve returned on a grid with empty cells, the last of them filled by
\* propagation after trials
C8_Witness ==
    /\ pc = "done"
    /\ ~any_unsolved_cell(cells)
    /\ DuplicateFree(given)
    /\ solved_indices_stack # <<>>
    /\ Len(solved_indices_stack) < Cardinality(EmptyCells(given))

\* c is the complete grid g with exactly the cell index cleared
ClearedAt(g, index, c) ==
    \A other \in Indices : c[other] = IF other = index THEN 0 ELSE g[other + 1]

\* C9: for a valid complete grid with exactly one cell cleared, solve does not
\* fail and returns the complete grid: the cleared cell holds its original
\* digit and all other cells are unchanged.
C9_SingleEmptyCellRestored ==
    \A g \in CompleteGrids, index \in Indices :
        (pc # "create" /\ ClearedAt(g, index, given)) =>
            /\ pc # "panic"
            /\ \A other \in Indices \ {index} : cells[other] = g[other + 1]
            /\ pc = "done" => cells[index] = g[index + 1]

\* solve has returned on a complete grid with one cell cleared
C9_Witness ==
    /\ pc = "done"
    /\ \E g \in CompleteGrids, index \in Indices :
           ClearedAt(g, index, given) /\ cells[index] = g[index + 1]

\* the loop of try_solve_by_constrains has ended
PropagationEnded == pc = "propagate" /\ ~(any_solve /\ ~any_error)

\* C11: propagation followed by a revert of the count it reports restores the
\* cell buffer and the stack of the moment propagation was entered, whether
\* or not it ended in a contradiction, and the masks recomputed from the
\* restored cells are the masks of that moment.
C11_RevertUndoesPropagation ==
    PropagationEnded =>
        LET reverted == revert_last_resolved_indices(cells, solved_indices_stack,
                                                     propagation_count)
            masks == compute_potentials(reverted.cells)
        IN /\ reverted.cells = at_entry.cells
           /\ reverted.stack = at_entry.stack
           /\ masks.lines = at_entry.lines
           /\ masks.columns = at_entry.columns

\* a propagation that assigned cells before it met a contradiction has ended
C11_Witness == PropagationEnded /\ any_error /\ propagation_count > 1

\* the digits no filled cell of the group holds, as a mask: bit v is set iff
\* v is in 1..9 and absent from the group; bit 0 is clear
ExpectedMask(c, group) ==
    LET absent == {v \in Digits : \A index \in group : c[index] # v}
        RECURSIVE sum(_)
        sum(v) == IF v > Size THEN 0
                  ELSE (IF v \in absent THEN Pow2(v) ELSE 0) + sum(v + 1)
    IN sum(1)

MasksMatchCells ==
    \A l \in Lines :
        /\ lines_state[l] = ExpectedMask(cells, LineCells[l])
        /\ columns_state[l] = ExpectedMask(cells, ColumnCells[l])

\* propagation is about to scan, or the search is about to select a cell
DecisionPoint ==
    \/ pc = "propagate" /\ any_solve /\ ~any_error
    \/ pc = "recursive"

\* C12: whenever propagation or the minimum-candidate selection reads the
\* masks, each of the 18 masks is the mask of the current cell buffer: bit v
\* set iff no filled cell of the row (column) holds v, bit 0 clear.
C12_MasksConsistentAtDecisions == DecisionPoint => MasksMatchCells

\* the selection reads the masks after a trial and its propagation
C12_Witness ==
    /\ pc = "recursive"
    /\ frames # <<>>
    /\ any_unsolved_cell(cells)
    /\ solved_indices_stack # <<>>

\* every index on the stack is a filled cell that was empty at the call and
\* is not the trial cell of an active loop; no index stands twice
StackHoldsPropagatedCells ==
    /\ \A k \in 1 .. Len(solved_indices_stack) :
           /\ cells[solved_indices_stack[k]] # 0
           /\ given[solved_indices_stack[k]] = 0
           /\ \A j \in 1 .. Len(frames) :
                  frames[j].cell_index # solved_indices_stack[k]
    /\ \A k1, k2 \in 1 .. Len(solved_indices_stack) :
           k1 # k2 => solved_indices_stack[k1] # solved_indices_stack[k2]

\* a step leaves the stack alone, or appends the cell it assigns, or removes
\* indices from the end
StackGrowsInAssignmentOrder ==
    \/ solved_indices_stack' = solved_indices_stack
    \/ \E index \in Indices :
           /\ solved_indices_stack' = Append(solved_indices_stack, index)
           /\ cells[index] = 0
           /\ cells'[index] # 0
    \/ /\ Len(solved_indices_stack') < Len(solved_indices_stack)
       /\ solved_indices_stack' =
              SubSeq(solved_indices_stack, 1, Len(solved_indices_stack'))

\* C13: in every state during solve, every index on the stack refers to a
\* filled cell assigned by propagation (not seeded, not a trial cell), no
\* index is on the stack twice, and the stack's order is the order of
\* assignment.
C13_StackOfPropagatedCells ==
    [](StackHoldsPropagatedCells) /\ [][StackGrowsInAssignmentOrder]_vars

\* a trial's propagation has pushed onto a stack that already held indices
C13_Witness ==
    /\ pc = "propagate"
    /\ frames # <<>>
    /\ initial_solved_indices_count > 0
    /\ propagation_count > 0

\* C14: from seeds without a digit repeated in a row or a column, every state
\* of solve keeps the cell-value invariant: a digit at (r,c) stands in no
\* other filled cell of row r or of column c.
C14_NoDuplicateIntroduced == DuplicateFree(given) => DuplicateFree(cells)

\* a trial value and cells assigned by its propagation stand in a grid whose
\* seeds had no repeated digit
C14_Witness ==
    /\ DuplicateFree(given)
    /\ pc = "propagate"
    /\ frames # <<>>
    /\ propagation_count > 0

\* the digits absent from the row and from the column of the cell
CandidateDigits(c, index) ==
    {v \in Digits :
        /\ \A other \in LineCells[coordinates_of(index)[1]] : c[other] # v
        /\ \A other \in ColumnCells[coordinates_of(index)[2]] : c[other] # v}

\* C15: every time the search selects a branching cell, every empty cell has
\* at least two candidates (classifies as Multiple), and if an empty cell
\* exists the selection returns a cell.
C15_EmptyCellsAreMultipleAtSelection ==
    pc = "recursive" =>
        /\ \A index \in EmptyCells(cells) :
               /\ interpret_potential(
                      potential_at(lines_state, columns_state, index)).tag = "Several"
               /\ Cardinality(CandidateDigits(cells, index)) >= 2
        /\ any_unsolved_cell(cells) =>
               try_find_cell_with_low_potential(cells, lines_state, columns_state).found

\* the search is about to select a cell inside a trial
C15_Witness ==
    /\ pc = "recursive"
    /\ frames # <<>>
    /\ Cardinality(EmptyCells(cells)) >= 2

\* the digits whose bit is set in the mask
MaskDigits(mask) == {v \in Digits : Bit(mask, v) # 0}

\* try_find_cell_with_low_potential has just returned the cell of the newest
\* loop; nothing has been written since
JustSelected == pc = "trial" /\ frames[Len(frames)].potential_index = 0

\* the trial cell of loop j holds a tried value
TrialWritten(j) == j < Len(frames) \/ pc # "trial"

SelectionIsMinimal ==
    JustSelected =>
        LET frame == frames[Len(frames)]
            count(index) == Cardinality(CandidateDigits(cells, index))
        IN /\ cells[frame.cell_index] = 0
           /\ MaskDigits(frame.potential) = CandidateDigits(cells, frame.cell_index)
           /\ frame.potential_count = count(frame.cell_index)
           /\ \A other \in EmptyCells(cells) :
                  \/ count(other) > frame.potential_count
                  \/ (count(other) = frame.potential_count /\ other >= frame.cell_index)

\* the k-th trial (k = potential_index, from 0) writes the candidate that has
\* exactly k smaller candidates
TrialsAreCandidatesInOrder ==
    \A j \in 1 .. Len(frames) :
        TrialWritten(j) =>
            LET value == cells[frames[j].cell_index]
                candidates == MaskDigits(frames[j].potential)
            IN /\ value \in candidates
               /\ Cardinality({u \in candidates : u < value}) = frames[j].potential_index

\* a loop that stays active keeps its cell and candidates, and its ordinal
\* stays or moves to the next
OrdinalsAdvanceByOne ==
    \A j \in 1 .. Len(frames) :
        j <= Len(frames') =>
            /\ frames'[j].cell_index = frames[j].cell_index
            /\ frames'[j].potential = frames[j].potential
            /\ frames'[j].potential_index \in
                   {frames[j].potential_index, frames[j].potential_index + 1}

\* C16: the search branches on the empty cell with the fewest candidates, the
\* lowest row-major index among those, and tries that cell's candidates (row
\* mask AND column mask at selection) in strictly ascending digit order.
C16_MinimalCellAscendingDigits ==
    /\ [](SelectionIsMinimal /\ TrialsAreCandidatesInOrder)
    /\ [][OrdinalsAdvanceByOne]_vars

\* the second or a later candidate of a cell is being tried
C16_Witness ==
    /\ pc = "propagate"
    /\ caller = "recursive"
    /\ frames[Len(frames)].potential_index >= 1

\* compute_potentials has run on the current cells
MasksRecomputed == pc \notin {"create", "create_panic", "solve"}

\* C17: in a grid with no empty cell, after the masks are recomputed none of
\* the 18 masks has a bit set, and the candidate set of every cell (row mask
\* AND column mask) classifies as Empty.
C17_FullGridMasksEmpty ==
    (MasksRecomputed /\ ~any_unsolved_cell(cells)) =>
        /\ \A l \in Lines : lines_state[l] = 0
        /\ \A k \in Lines : columns_state[k] = 0
        /\ \A index \in Indices :
               interpret_potential(potential_at(lines_state, columns_state, index)).tag
                   = "None"

FullGridMasksEmpty ==
    /\ \A l \in Lines : lines_state[l] = 0
    /\ \A k \in Lines : columns_state[k] = 0
    /\ \A index \in Indices :
           interpret_potential(potential_at(lines_state, columns_state, index)).tag
               = "None"

\* C17 (amended): in a grid with no empty cell and no digit twice in a row or
\* column, after the masks are recomputed none of the 18 masks has a bit set
\* and every candidate set classifies as Empty.
C17_ValidFullGridMasksEmpty ==
    (MasksRecomputed /\ ~any_unsolved_cell(cells) /\ DuplicateFree(cells)) =>
        FullGridMasksEmpty

\* a search that filled the last cells by propagation has returned
C17_Witness ==
    /\ pc = "returned"
    /\ frames = <<>>
    /\ ~any_unsolved_cell(cells)
    /\ DuplicateFree(cells)
    /\ solved_indices_stack # <<>>

\* this step is a return of try_solve_recursive with false: either straight
\* from its entry (no cell found) or from the end of its for loop
ReturnsFalse == pc \in {"recursive", "trial"} /\ pc' = "returned" /\ ~ret'

\* the grid as it was when the returning call was entered
EntryOfReturningCall ==
    IF pc = "recursive"
    THEN [cells |-> cells, lines |-> lines_state, columns |-> columns_state,
          stack |-> solved_indices_stack]
    ELSE frames[Len(frames)].entered

\* C18: every call of try_solve_recursive that returns false leaves the cells,
\* the 18 masks and the solved-by-propagation stack exactly as they were when
\* the call was entered.
C18_FailedCallRestoresGrid ==
    [][ReturnsFalse =>
          /\ cells' = EntryOfReturningCall.cells
          /\ lines_state' = EntryOfReturningCall.lines
          /\ columns_state' = EntryOfReturningCall.columns
          /\ solved_indices_stack' = EntryOfReturningCall.stack]_vars

\* a nested call has tried all its candidates and returned false to the
\* trial loop that called it
C18_Witness ==
    /\ pc = "returned"
    /\ ~ret
    /\ frames # <<>>

\* solve has returned, or has panicked with the base-constraints message
SolveEnded == pc \in {"done", "panic"}

\* calls of try_solve_recursive that are active
ActiveCalls == Len(frames) + (IF pc = "recursive" THEN 1 ELSE 0)

\* nesting of try_solve_recursive within itself: the call made by solve is at
\* depth 0, each call made from a trial loop is one deeper than its caller
RecursionDepth == IF ActiveCalls = 0 THEN 0 ELSE ActiveCalls - 1

\* C19: solve terminates on every input (it returns or panics); every
\* propagation ends, after at most as many assignments as there were empty
\* cells; and the search never nests deeper than the number of cells that
\* were empty when solve was called.
C19_SolveTerminates ==
    /\ (pc = "solve") ~> SolveEnded
    /\ (pc = "propagate") ~> PropagationEnded
    /\ [](propagation_count <= Cardinality(EmptyCells(given)))
    /\ [](RecursionDepth <= Cardinality(EmptyCells(given)))

\* the search is three self-calls deep and enters one more
C19_Witness ==
    /\ pc = "recursive"
    /\ RecursionDepth >= 3

\* ------------------------------------------------------------------------
\* The two mask helpers on their own: any u16 is classified, then its values
\* are selected by ordinal 0, 1, ... below the reported count
\* ------------------------------------------------------------------------
U16Max == 65535

program_vars == <<values, given, grid, pc, caller, prop_locals, frames, ret>>

InitHelpers ==
    /\ values = <<>>
    /\ GridNotCreated
    /\ arg_potential \in 0 .. U16Max
    /\ res_state = NotCalled
    /\ res_values = <<>>

\* the number of candidates the caller reads from the classification
reported_count(state) ==
    IF state.tag = "Several" THEN state.n
    ELSE IF state.tag = "One" THEN 1
    ELSE 0

Classify ==
    /\ res_state = NotCalled
    /\ res_state' = interpret_potential(arg_potential)
    /\ UNCHANGED <<program_vars, arg_potential, res_values>>

SelectNext ==
    /\ res_state # NotCalled
    /\ Len(res_values) < reported_count(res_state)
    /\ res_values' = Append(res_values,
                            get_potential_value_at(arg_potential, Len(res_values)))
    /\ UNCHANGED <<program_vars, arg_potential, res_state>>

NextHelpers ==
    \/ Classify
    \/ SelectNext

SpecHelpers == InitHelpers /\ [][NextHelpers]_vars

\* the classification follows the number of set bits among bits 1..9
ClassifiedByPopcount ==
    res_state # NotCalled =>
        LET bits == MaskDigits(arg_potential)
        IN /\ Cardinality(bits) = 0 => res_state.tag = "None"
           /\ Cardinality(bits) = 1 =>
                  res_state.tag = "One" /\ bits = {res_state.n}
           /\ Cardinality(bits) >= 2 =>
                  res_state.tag = "Several" /\ res_state.n = Cardinality(bits)

\* ordinal k (from 0) gives the set bit with exactly k set bits below it
SelectedAscending ==
    LET bits == MaskDigits(arg_potential)
    IN /\ Len(res_values) <= Cardinality(bits)
       /\ \A k \in 1 .. Len(res_values) :
              /\ res_values[k] \in bits
              /\ Cardinality({u \in bits : u < res_values[k]}) = k - 1
              /\ k > 1 => res_values[k - 1] < res_values[k]

\* C20: for every 16-bit mask, interpret_potential reports None, One(v) or
\* Several(count) by the number of set bits among bits 1..9 only (v the single
\* set bit, count the popcount), and get_potential_value_at for ordinals
\* 0..popcount-1 returns the set bits among 1..9 in strictly ascending order.
C20_ClassifyAndSelect == ClassifiedByPopcount /\ SelectedAscending

\* all the values of a mask with bit 0 and bit 15 set have been selected
C20_Witness ==
    /\ arg_potential % 2 = 1
    /\ arg_potential >= 32768
    /\ Len(res_values) >= 3
    /\ Len(res_values) = Cardinality(MaskDigits(arg_potential))

====
